---- MODULE Spec2Model ----
(***************************************************************************)
(* A model of scrape_player.py: the profile locator and the orchestrator   *)
(* find_and_scrape with the retried fetch (specification Spec), the CLI's  *)
(* season aggregation (SpecAgg) and the profile parser's name resolution   *)
(* and stats-table heuristic (SpecParse).                                  *)
(*                                                                         *)
(* The site, the search service and the fuzzy scores of rapidfuzz are the  *)
(* environment: a GET attempt succeeds or fails nondeterministically, a    *)
(* page is drawn from a bounded set of pages, and a link or a name         *)
(* candidate carries the score the library gave it.  The waits of the      *)
(* exponential backoff take time only and are not modelled.                *)
(***************************************************************************)
EXTENDS Integers, Sequences, FiniteSets, TLC

VARIABLES
    query,          \* (name, school) of the call of find_and_scrape
    hasKey,         \* os.environ has a non-empty SERPAPI_KEY
    pc,             \* the await the coroutine is suspended at
    fstatus,        \* the fetch in flight: "idle", "pending", "ok", "error"
    outcomes,       \* outcomes of the GET attempts of the fetch in flight
    todo,           \* roster_urls not yet iterated
    candidates,     \* the roster scan's candidates, kept until
                    \* find_and_scrape has taken the locator's return value
    log,            \* history: the kinds of call made, in order (a kind
                    \* repeated at once is logged once)
    located,        \* return value of sidearm_find_profile
    locatedBy,      \* history: the locator method that produced the URL
    url,            \* find_and_scrape's url
    si,             \* index of the season the supplementer is at
    all_stats_rows, \* the supplementer's all_stats_rows
    result,         \* the value find_and_scrape returned
    raisedAt,       \* where an exception left find_and_scrape, or "none"
    webRequests,    \* history: requests made to the external search
    anyOk,          \* history: some GET attempt of the query succeeded
    stats_rows,     \* aggregation: the rows the CLI aggregates
    ai,             \* aggregation: rows processed so far
    season_data,    \* aggregation: season label -> retained entry
    apc,            \* aggregation: "idle", "loop", "done", "aborted"
    totals,         \* aggregation: the career totals
    doc,            \* parser: the document being parsed
    ppc,            \* parser: "idle", "ready", "parsed"
    parsed          \* parser: the record the parser produced

qvars == <<query, hasKey, pc, fstatus, outcomes, todo, candidates, log,
           located, locatedBy, url, si, all_stats_rows, result, raisedAt,
           webRequests, anyOk>>
avars == <<stats_rows, ai, season_data, apc, totals>>
pvars == <<doc, ppc, parsed>>
vars == <<qvars, avars, pvars>>

----------------------------------------------------------------------------
(* Bounds of the model *)

MaxLinks == 2       \* anchors on a search or roster page
MaxTables == 2      \* tables on a team statistics page

SeqUpTo(S, n) == UNION {[1..k -> S] : k \in 0..n}

\* the first index of s whose element satisfies P, 0 when there is none
FirstIndex(s, P(_)) ==
    IF \E i \in 1..Len(s) : P(s[i])
    THEN CHOOSE i \in 1..Len(s) : P(s[i]) /\ \A j \in 1..(i - 1) : ~P(s[j])
    ELSE 0

None == "None"

----------------------------------------------------------------------------
(* Inputs *)

\* the calls of find_and_scrape the model makes
Queries ==
    {[name |-> "Abdirasak Bulale", school |-> "St. Olaf College"],
     [name |-> "Jane Roe", school |-> "Foo University"]}

\* norm_key on the schools of Queries: lower-case, drop all but [a-z0-9 ]
norm_key(s) ==
    CASE s = "St. Olaf College" -> "st olaf college"
      [] s = "Foo University" -> "foo university"

\* the entries of SCHOOL_TO_ATHLETICS for St. Olaf; no key of the table is
\* "st olaf college", the key norm_key makes of "St. Olaf College"
SCHOOL_TO_ATHLETICS ==
    [k \in {"st. olaf college", "saint olaf", "st olaf"} |->
        "athletics.stolaf.edu"]

\* slugify(re.sub(r"\b(college|university)\b", "", school_key)) without "-",
\* on the keys of Queries
FallbackBase(school_key) ==
    CASE school_key = "st olaf college" -> "stolaf"
      [] school_key = "foo university" -> "foo"

\* the athletics host of "athletics.<base>.edu"
FallbackDomain(base) ==
    CASE base = "stolaf" -> "athletics.stolaf.edu"
      [] base = "foo" -> "athletics.foo.edu"

\* domain of find_and_scrape: the table's entry, else the fallback
SchoolDomain(school) ==
    LET school_key == norm_key(school) IN
    IF school_key \in DOMAIN SCHOOL_TO_ATHLETICS
    THEN SCHOOL_TO_ATHLETICS[school_key]
    ELSE FallbackDomain(FallbackBase(school_key))

----------------------------------------------------------------------------
(* The site as the environment: pages *)

\* no page, no record
NoPage == [kind |-> "none"]

\* hrefs of the profile links of the pages, in the order of str comparison
SortedHrefs ==
    <<"/sports/mens-soccer/roster/a-player/1",
      "/sports/mens-soccer/roster/b-player/2">>

Hrefs == {SortedHrefs[i] : i \in 1..Len(SortedHrefs)}

\* an anchor matched by a[href*="/sports/"] on the search page: whether its
\* href holds "/roster/" and SPORT_PATH, and fuzz.partial_ratio of its text
SearchLinks ==
    [roster : BOOLEAN, sport : BOOLEAN, partial_ratio : {89, 90}, href : Hrefs]

\* an anchor matched by a[href*="/sports/"][href*="/roster/"] on a roster
\* page: whether its text is non-empty, and fuzz.token_set_ratio of it
\* (the ratio of an empty text is 0)
RosterLinks ==
    [text : {TRUE}, token_set_ratio : {84, 85, 100}, href : Hrefs]
        \cup [text : {FALSE}, token_set_ratio : {0}, href : Hrefs]

SearchPages == [kind : {"search"}, links : SeqUpTo(SearchLinks, MaxLinks)]
RosterPages == [kind : {"roster"}, links : SeqUpTo(RosterLinks, MaxLinks)]

\* a profile page: the provider markers its html holds, and whether
\* parse_sidearm_profile finds statistics rows in it
ProfilePages ==
    [kind : {"profile"}, markers : SUBSET {"sidearm", "presto"},
     stats : BOOLEAN]

\* header lists of the tables of a team statistics page, lower-cased
StatsHeaders ==
    {<<"#", "player", "gp", "g", "a">>, <<"name", "position", "year">>}

\* a body row: "short" has fewer than 3 cells or fewer cells than headers,
\* "match" names the player (partial_ratio >= 85, or a part of the name is
\* in the row's text), "other" is another player's row
RowLists == {<<>>, <<"other">>, <<"short", "match">>, <<"match", "match">>}

StatsTables == [headers : StatsHeaders, rows : RowLists]
StatsPages == [kind : {"stats"}, tables : SeqUpTo(StatsTables, MaxTables)]

\* the bodies a response can carry: a page of the given set if the fetch
\* returned, none if it raised.  The model draws the body where the caller
\* reads it
Bodies(pages) == IF fstatus = "ok" THEN pages ELSE {NoPage}

----------------------------------------------------------------------------
(* fetch: one GET per attempt, retried by tenacity *)

\* stop_after_attempt(4): one attempt too many
StopAfterAttempt4(attempt_number) == attempt_number >= 4

\* stop=stop_after_attempt(3): stop once 3 attempts were made
stop_after_attempt(attempt_number) == attempt_number >= 3

\* what one attempt can end in: the response, a transport error raised by
\* client.get, or raise_for_status raising on a status outside 2xx
AttemptOutcomes == {"2xx", "transport_error", "bad_status"}

\* the log with a call of the given kind added
LogCall(l, tag) ==
    IF l # <<>> /\ l[Len(l)] = tag THEN l ELSE Append(l, tag)

\* a call site starts a fetch
StartFetch(site, tag) ==
    /\ pc' = site
    /\ fstatus' = "pending"
    /\ outcomes' = <<>>
    /\ log' = LogCall(log, tag)

\* a call site takes the outcome of its fetch
EndFetch ==
    /\ fstatus' = "idle"
    /\ outcomes' = <<>>

\* one attempt of fetch: the GET, raise_for_status, and the decision of the
\* retry decorator to return, to retry or to give up with RetryError
Get ==
    /\ fstatus = "pending"
    /\ \E o \in AttemptOutcomes :
        /\ outcomes' = Append(outcomes, o)
        /\ anyOk' = (anyOk \/ o = "2xx")
        /\ fstatus' = IF o = "2xx" THEN "ok"
                      ELSE IF stop_after_attempt(Len(outcomes) + 1)
                      THEN "error"
                      ELSE "pending"
    /\ UNCHANGED <<query, hasKey, pc, todo, log, located, locatedBy, url, si,
                   all_stats_rows, result, raisedAt, webRequests>>
    /\ UNCHANGED candidates
    /\ UNCHANGED <<avars, pvars>>

FetchDone == fstatus \in {"ok", "error"}

----------------------------------------------------------------------------
(* sidearm_find_profile *)

\* roster_urls: each pattern, and each pattern followed by "/<season>"
Patterns == {"roster", "roster?view=2"}
RosterSeasons == {"", "2024-25", "2023-24"}
RosterUrls == [pattern : Patterns, yr : RosterSeasons]

\* the site-search test of an anchor: "/roster/" and SPORT_PATH in the href
\* and partial_ratio >= 90
SiteSearchAccepts(a) == a.roster /\ a.sport /\ a.partial_ratio >= 90

\* the roster-page test of an anchor: text, and token_set_ratio >= 85
RosterQualifies(a) == a.text /\ a.token_set_ratio >= 85

HrefRank(h) == CHOOSE i \in 1..Len(SortedHrefs) : SortedHrefs[i] = h

\* (score, url) tuples as Python compares them
TupleLeq(c, d) ==
    \/ c.token_set_ratio < d.token_set_ratio
    \/ /\ c.token_set_ratio = d.token_set_ratio
       /\ HrefRank(c.href) <= HrefRank(d.href)

\* candidates.sort(reverse=True); candidates[0][1]
BestCandidate(scored) ==
    LET S == {scored[i] : i \in 1..Len(scored)}
    IN (CHOOSE c \in S : \A d \in S : TupleLeq(d, c)).href

\* return of sidearm_find_profile to find_and_scrape; its locals are gone
LocatorReturns(u, method) ==
    /\ located' = u
    /\ locatedBy' = method
    /\ pc' = "located"
    /\ EndFetch
    /\ todo' = {}
    /\ log' = log

\* the roster loop continuing without its except clause: the error of the
\* fetch leaves sidearm_find_profile
RosterNextNoExcept(remaining) ==
    IF fstatus = "error"
    THEN /\ pc' = "raised"
         /\ raisedAt' = "locate"
         /\ EndFetch
         /\ UNCHANGED <<log, todo, located, locatedBy>>
    ELSE /\ raisedAt' = raisedAt
         /\ IF remaining = {}
            THEN LocatorReturns(None, "none")
            ELSE \E u \in remaining :
                    /\ todo' = remaining \ {u}
                    /\ StartFetch("roster_fetch", "roster")
                    /\ UNCHANGED <<located, locatedBy>>

\* for url in roster_urls: the loop takes a URL not yet iterated (a set has
\* no order of its own) and fetches it, or is exhausted and None is returned
RosterNext(remaining) ==
    /\ raisedAt' = raisedAt
    /\ IF remaining = {}
       THEN /\ LocatorReturns(None, "none")
       ELSE \E u \in remaining :
               /\ todo' = remaining \ {u}
               /\ StartFetch("roster_fetch", "roster")
               /\ UNCHANGED <<located, locatedBy>>

\* find_and_scrape resolves the domain and calls sidearm_find_profile,
\* which fetches the search URL
SiteSearchCall ==
    /\ pc = "start"
    /\ StartFetch("site_search", "search")
    /\ UNCHANGED <<query, hasKey, todo, located, locatedBy, url, si,
                   all_stats_rows, result, raisedAt, webRequests, anyOk>>
    /\ UNCHANGED candidates
    /\ UNCHANGED <<avars, pvars>>

\* the search fetch is over: the first accepted anchor is returned; with
\* none, or with the fetch failed (except Exception: pass), the roster
\* scan starts
SiteSearchReturn ==
    /\ pc = "site_search"
    /\ FetchDone
    /\ \E r \in Bodies(SearchPages) :
        LET i == IF fstatus = "ok"
                 THEN FirstIndex(r.links, SiteSearchAccepts) ELSE 0
        IN IF i # 0
           THEN /\ LocatorReturns(r.links[i].href, "search")
                /\ raisedAt' = raisedAt
           ELSE RosterNext(RosterUrls)
    /\ UNCHANGED <<query, hasKey, url, si, all_stats_rows, result,
                   webRequests, anyOk>>
    /\ UNCHANGED candidates
    /\ UNCHANGED <<avars, pvars>>

\* a roster fetch is over: a failed one is skipped (except: continue); a
\* page with qualifying anchors ends the scan with the best of them
RosterReturn ==
    /\ pc = "roster_fetch"
    /\ FetchDone
    /\ \E r \in Bodies(RosterPages) :
        LET scored == IF fstatus = "ok"
                      THEN SelectSeq(r.links, RosterQualifies)
                      ELSE <<>>
        IN /\ candidates' = scored
           /\ IF scored # <<>>
              THEN /\ LocatorReturns(BestCandidate(scored), "roster")
                   /\ raisedAt' = raisedAt
              ELSE RosterNext(todo)
    /\ UNCHANGED <<query, hasKey, url, si, all_stats_rows, result,
                   webRequests, anyOk>>
    /\ UNCHANGED <<avars, pvars>>

----------------------------------------------------------------------------
(* search_profile_by_web *)

\* an entry of organic_results: its "link" (None: the entry has no such
\* key), whether the link holds "/sports/" and "/roster/", whether it holds
\* SPORT_PATH, and whether partial_ratio of title and snippet is > 90
WebEntries ==
    [link : Hrefs \cup {None}, rosterpath : BOOLEAN, sport : BOOLEAN,
     similar : BOOLEAN]

\* what the external search can do once the key is set: import serpapi
\* fails, the request raises, or get_dict() returns organic_results
WebOutcomes ==
    [kind : {"import_error", "request_error"}, results : {<<>>}]
        \cup [kind : {"results"}, results : SeqUpTo(WebEntries, MaxLinks)]

\* score(url, title, snippet)
score(r) ==
    (IF r.rosterpath THEN 4 ELSE 0) + (IF r.sport THEN 3 ELSE 0)
        + (IF r.similar THEN 3 ELSE 0)

\* sorted(..., key=score, reverse=True)[0]: the first entry of the highest
\* score (the sort is stable)
RankedFirst(results) ==
    results[CHOOSE i \in 1..Len(results) :
                /\ \A j \in 1..Len(results) : score(results[j]) <= score(results[i])
                /\ \A j \in 1..(i - 1) : score(results[j]) < score(results[i])]

\* the guard without the test of the key
KeyNotTested(key) == TRUE

\* "if not key: return None" lets the search go on only with a key
KeyConfigured(key) == key

\* search_profile_by_web: the URL returned (None for none), whether an
\* exception left it, and the requests it made
search_profile_by_web(key, w) ==
    IF ~KeyConfigured(key)
    THEN [url |-> None, raised |-> FALSE, requests |-> 0]
    ELSE IF w.kind = "import_error"
    THEN [url |-> None, raised |-> TRUE, requests |-> 0]
    ELSE IF w.kind = "request_error"
    THEN [url |-> None, raised |-> TRUE, requests |-> 1]
    ELSE IF \E i \in 1..Len(w.results) : w.results[i].link = None
    THEN [url |-> None, raised |-> TRUE, requests |-> 1]
    ELSE IF w.results # <<>> /\ score(RankedFirst(w.results)) >= 4
    THEN [url |-> RankedFirst(w.results).link, raised |-> FALSE, requests |-> 1]
    ELSE [url |-> None, raised |-> FALSE, requests |-> 1]

----------------------------------------------------------------------------
(* find_and_scrape *)

\* the external search called whatever the locator returned
AlwaysWebSearch(u) == TRUE

\* "if not url"
NotUrl(u) == u = None

\* "if not url: url = await search_profile_by_web(name, domain)": the
\* external search is called when the locator returned no URL
WebSearchNeeded(u) == NotUrl(u)

\* the record of a failed resolution
NotFound ==
    [found |-> FALSE, reason |-> "profile_not_found",
     school_domain |-> SchoolDomain(query.school),
     input |-> [name |-> query.name, school |-> query.school]]

\* the record of a resolved profile: data.update({"found": True, ...})
Found(provider, rows, source) ==
    [found |-> TRUE, provider |-> provider, stats_rows |-> rows,
     stats_source |-> source, school_domain |-> SchoolDomain(query.school),
     input |-> [name |-> query.name, school |-> query.school,
                sport_path |-> "mens-soccer"]]

\* the locator has returned: the external search is tried if it found
\* nothing; with no URL the not-found record is returned, else the profile
\* page is fetched
ResolveUrl ==
    /\ pc = "located"
    /\ \E w \in WebOutcomes :
        LET called == WebSearchNeeded(located)
            s == IF called THEN search_profile_by_web(hasKey, w)
                 ELSE [url |-> located, raised |-> FALSE, requests |-> 0]
            log1 == IF called THEN LogCall(log, "web") ELSE log
        IN /\ webRequests' = webRequests + s.requests
           /\ IF s.raised
              THEN /\ pc' = "raised"
                   /\ raisedAt' = "web"
                   /\ log' = log1
                   /\ UNCHANGED <<url, result, fstatus, outcomes,
                                  locatedBy>>
              ELSE IF NotUrl(s.url)
              THEN /\ pc' = "done"
                   /\ result' = NotFound
                   /\ log' = log1
                   /\ UNCHANGED <<url, raisedAt, fstatus, outcomes,
                                  locatedBy>>
              ELSE /\ url' = s.url
                   /\ locatedBy' = IF called THEN "web" ELSE locatedBy
                   /\ pc' = "profile_fetch"
                   /\ fstatus' = "pending"
                   /\ outcomes' = <<>>
                   /\ log' = LogCall(log1, "profile")
                   /\ UNCHANGED <<result, raisedAt>>
    /\ UNCHANGED <<query, hasKey, todo, located, si, all_stats_rows, anyOk>>
    /\ candidates' = <<>>
    /\ UNCHANGED <<avars, pvars>>

\* guess_provider_from_html, or "unknown"
guess_provider_from_html(markers) ==
    IF "sidearm" \in markers THEN "sidearm"
    ELSE IF "presto" \in markers THEN "presto"
    ELSE "unknown"

\* the rows parse_sidearm_profile took from a profile page that has some
ProfileRows == <<[season |-> None, source |-> "profile"]>>

----------------------------------------------------------------------------
(* fetch_player_stats_from_team_page *)

seasons == <<"2024", "2023", "2022">>

\* the header test of the supplementer: a player column and a stat column
IndividualStats(headers) ==
    /\ \E i \in 1..Len(headers) : headers[i] \in {"#", "player", "name"}
    /\ \E i \in 1..Len(headers) : headers[i] \in {"gp", "g", "a", "pts"}

IsPlayerRow(row) == row = "match"

RECURSIVE ScanTables(_, _)
\* the rows one page adds to all_stats_rows: for every table that passes
\* the header test, its first row that names the player (the break leaves
\* the loop over the rows, not the loop over the tables)
ScanTables(tables, season) ==
    IF tables = <<>> THEN <<>>
    ELSE LET table == Head(tables)
             found == IndividualStats(table.headers)
                          /\ FirstIndex(table.rows, IsPlayerRow) # 0
         IN (IF found
             THEN <<[season |-> season, source |-> "team_stats_page"]>>
             ELSE <<>>) \o ScanTables(Tail(tables), season)

\* find_and_scrape returns the record of a sidearm profile whose own page
\* had no statistics, with what the supplementer returned
ReturnSupplemented(team_stats) ==
    /\ pc' = "done"
    /\ result' = IF team_stats # <<>>
                 THEN Found("sidearm", team_stats, "team_stats_page")
                 ELSE Found("sidearm", <<>>, None)
    /\ EndFetch
    /\ log' = log

\* the profile fetch is over.  Its error is not caught: it leaves
\* find_and_scrape.  A sidearm page is parsed, and with no statistics rows
\* the supplementer fetches the first season page; any other page gives
\* the name-only record
ProfileReturn ==
    /\ pc = "profile_fetch"
    /\ FetchDone
    /\ \E r \in Bodies(ProfilePages) :
       IF fstatus = "error"
       THEN /\ pc' = "raised"
            /\ raisedAt' = "profile"
            /\ EndFetch
            /\ UNCHANGED <<log, result, si, all_stats_rows>>
       ELSE LET provider == guess_provider_from_html(r.markers)
            IN /\ raisedAt' = raisedAt
               /\ IF provider = "sidearm" /\ ~r.stats
                  THEN /\ si' = 1
                       /\ all_stats_rows' = <<>>
                       /\ StartFetch("season_fetch", "season")
                       /\ result' = result
                  ELSE /\ pc' = "done"
                       /\ result' = IF provider = "sidearm"
                                    THEN Found("sidearm", ProfileRows, None)
                                    ELSE Found(provider, <<>>, None)
                       /\ EndFetch
                       /\ UNCHANGED <<log, si, all_stats_rows>>
    /\ UNCHANGED <<query, hasKey, todo, located, locatedBy, url,
                   webRequests, anyOk>>
    /\ UNCHANGED candidates
    /\ UNCHANGED <<avars, pvars>>

\* the fetch of a season page is over: a failed one is skipped (the inner
\* except), a fetched one is scanned.  Then the next season is fetched;
\* after the last, the undated page is fetched if no row was found
SeasonReturn ==
    /\ pc = "season_fetch"
    /\ FetchDone
    /\ \E r \in Bodies(StatsPages) :
       LET rows == IF fstatus = "ok"
                   THEN all_stats_rows \o ScanTables(r.tables, seasons[si])
                   ELSE all_stats_rows
       IN /\ all_stats_rows' = rows
          /\ IF si < Len(seasons)
             THEN /\ si' = si + 1
                  /\ StartFetch("season_fetch", "season")
                  /\ result' = result
             ELSE IF rows = <<>>
             THEN /\ si' = si
                  /\ StartFetch("main_fetch", "main")
                  /\ result' = result
             ELSE /\ si' = si
                  /\ ReturnSupplemented(rows)
    /\ UNCHANGED <<query, hasKey, todo, located, locatedBy, url, raisedAt,
                   webRequests, anyOk>>
    /\ UNCHANGED candidates
    /\ UNCHANGED <<avars, pvars>>

\* the fetch of the undated page is over: its error is caught by the outer
\* except, which returns []; a fetched page is scanned as season "2024"
MainReturn ==
    /\ pc = "main_fetch"
    /\ FetchDone
    /\ \E r \in Bodies(StatsPages) :
       LET rows == IF fstatus = "ok"
                   THEN all_stats_rows \o ScanTables(r.tables, "2024")
                   ELSE <<>>
       IN /\ all_stats_rows' = rows
          /\ ReturnSupplemented(rows)
    /\ UNCHANGED <<query, hasKey, todo, located, locatedBy, url, si,
                   raisedAt, webRequests, anyOk>>
    /\ UNCHANGED candidates
    /\ UNCHANGED <<avars, pvars>>

----------------------------------------------------------------------------
(* The specification of one query *)

AggIdle ==
    /\ stats_rows = <<>>
    /\ ai = 0
    /\ season_data = <<>>
    /\ apc = "idle"
    /\ totals = <<>>

ParseIdle ==
    /\ doc = NoPage
    /\ ppc = "idle"
    /\ parsed = NoPage

QueryInit ==
    /\ query \in Queries
    /\ hasKey \in BOOLEAN
    /\ pc = "start"
    /\ fstatus = "idle"
    /\ outcomes = <<>>
    /\ todo = {}
    /\ candidates = <<>>
    /\ log = <<>>
    /\ located = None
    /\ locatedBy = "none"
    /\ url = None
    /\ si = 0
    /\ all_stats_rows = <<>>
    /\ result = NoPage
    /\ raisedAt = "none"
    /\ webRequests = 0
    /\ anyOk = FALSE

Init == QueryInit /\ AggIdle /\ ParseIdle

Next ==
    \/ SiteSearchCall
    \/ Get
    \/ SiteSearchReturn
    \/ RosterReturn
    \/ ResolveUrl
    \/ ProfileReturn
    \/ SeasonReturn
    \/ MainReturn

Spec == Init /\ [][Next]_vars

----------------------------------------------------------------------------
(* Properties of one query *)

Failed(o) == o # "2xx"

LocatePcs == {"start", "site_search", "roster_fetch"}

\* the place of a kind of call in the order of find_and_scrape
CallRank(tag) ==
    CASE tag = "search" -> 1
      [] tag = "roster" -> 2
      [] tag = "web" -> 3
      [] tag = "profile" -> 4
      [] tag = "season" -> 5
      [] tag = "main" -> 6

\* C1: one call of fetch makes at most 3 GET attempts; it returns on the
\* first attempt that succeeds, and raises only after 3 failed attempts in
\* a row; an attempt, retried or not, leaves its caller where it is: the
\* program point, the roster URLs still to scan, the calls made so far and
\* the locator's result do not change.
C1_FetchRetriesBounded ==
    /\ [](/\ Len(outcomes) <= 3
          /\ fstatus = "pending" =>
                /\ Len(outcomes) < 3
                /\ \A i \in 1..Len(outcomes) : Failed(outcomes[i])
          /\ fstatus = "ok" =>
                /\ outcomes # <<>>
                /\ outcomes[Len(outcomes)] = "2xx"
                /\ \A i \in 1..(Len(outcomes) - 1) : Failed(outcomes[i])
          /\ fstatus = "error" =>
                /\ Len(outcomes) = 3
                /\ \A i \in 1..3 : Failed(outcomes[i]))
    /\ [][fstatus = "pending" =>
            /\ pc' = pc
            /\ todo' = todo
            /\ log' = log
            /\ located' = located
            /\ Len(outcomes') = Len(outcomes) + 1]_vars

\* a roster fetch gave up after a transport error, a bad status and another
\* transport error
C1_Witness ==
    /\ pc = "roster_fetch"
    /\ fstatus = "error"
    /\ outcomes = <<"transport_error", "bad_status", "transport_error">>

\* C2: the calls are made in the order site search, roster pages, external
\* search, and the first success ends the locating: after an accepted
\* search link no roster page is fetched, once the locator has a URL
\* neither the search page nor a roster page is fetched again, and the
\* external search is called only if the locator returned no URL.
C2_LocatorOrder ==
    /\ [](/\ \A i, j \in 1..Len(log) :
                i < j => CallRank(log[i]) < CallRank(log[j])
          /\ locatedBy = "search" =>
                \A i \in 1..Len(log) : log[i] # "roster"
          /\ (\E i \in 1..Len(log) : log[i] = "web") =>
                located = None /\ locatedBy \in {"none", "web"}
          /\ pc \in LocatePcs => located = None /\ locatedBy = "none")
    /\ [][/\ pc' = "roster_fetch" => pc \in {"site_search", "roster_fetch"}
          /\ pc \notin LocatePcs => pc' \notin LocatePcs
          /\ locatedBy' = "roster" /\ locatedBy = "none" =>
                pc = "roster_fetch" /\ pc' = "located" /\ todo' = {}]_vars

\* a roster page other than the last yielded the URL and the profile page
\* is being fetched
C2_Witness ==
    /\ pc = "profile_fetch"
    /\ locatedBy = "roster"
    /\ log = <<"search", "roster", "profile">>

\* C3: whatever fetches fail, no exception leaves sidearm_find_profile: a
\* failed search fetch starts the roster scan over all roster URLs, a
\* failed roster fetch is followed by the fetch of another roster URL while
\* any is left, and None is returned only when none is left.
C3_LocatorNeverRaises ==
    /\ [](raisedAt # "locate")
    /\ [][/\ pc = "site_search" /\ fstatus = "error" =>
                /\ pc' = "roster_fetch"
                /\ fstatus' = "pending"
                /\ Cardinality(todo') = Cardinality(RosterUrls) - 1
          /\ pc = "roster_fetch" /\ fstatus = "error" /\ todo # {} =>
                /\ pc' = "roster_fetch"
                /\ fstatus' = "pending"
                /\ todo' \subseteq todo
                /\ Cardinality(todo') = Cardinality(todo) - 1
          /\ pc = "roster_fetch" /\ fstatus = "error" /\ todo = {} =>
                pc' = "located" /\ located' = None
          /\ pc \in LocatePcs /\ pc' = "located" /\ located' = None =>
                pc = "roster_fetch" /\ todo = {}]_vars

\* the locator returned None after every GET of the query had failed
C3_Witness ==
    /\ pc = "located"
    /\ located = None
    /\ ~anyOk
    /\ log = <<"search", "roster">>

\* C4 as claimed: no failed fetch makes find_and_scrape raise.  The fetch of
\* the located profile page is not guarded, so this fails.
C4_FetchErrorsRecoverable == raisedAt \notin {"locate", "profile", "supplement"}

\* C5: with no key configured, a locator that returns no URL makes
\* find_and_scrape return the not-found record, with the domain of the
\* school and the input, and the external search makes no request.
C5_NotFoundWithoutKey ==
    /\ ~hasKey => webRequests = 0 /\ raisedAt # "web"
    /\ (~hasKey /\ pc \notin LocatePcs \cup {"located"} /\ located = None) =>
        /\ pc = "done"
        /\ result.found = FALSE
        /\ result.reason = "profile_not_found"
        /\ result.input = [name |-> query.name, school |-> query.school]
        /\ query.school = "St. Olaf College" =>
                result.school_domain = "athletics.stolaf.edu"
        /\ query.school = "Foo University" =>
                result.school_domain = "athletics.foo.edu"

\* not found, with no key, after every GET of the query had failed
C5_Witness ==
    /\ pc = "done"
    /\ ~hasKey
    /\ ~anyOk
    /\ result.found = FALSE
    /\ log = <<"search", "roster", "web">>

\* C6 as claimed: with a key configured no failure of the external search
\* leaves find_and_scrape as an exception.  Nothing catches the failed
\* import, the failed request or the missing "link", so this fails.
C6_WebSearchFailureSilent == hasKey => raisedAt # "web"

----------------------------------------------------------------------------
(* The CLI's aggregation of stats_rows (__main__) *)

MaxAggRows == 2     \* rows in stats_rows

\* a value absent from a row
Absent == "Absent"

\* texts are sequences of characters
DigitSeq == <<"0", "1", "2", "3", "4", "5", "6", "7", "8", "9">>
Digits == {DigitSeq[i] : i \in 1..Len(DigitSeq)}
DigitVal(c) == (CHOOSE i \in 1..Len(DigitSeq) : DigitSeq[i] = c) - 1

RECURSIVE LStrip(_)
LStrip(t) == IF t # <<>> /\ Head(t) = " " THEN LStrip(Tail(t)) ELSE t

RECURSIVE RStrip(_)
RStrip(t) ==
    IF t # <<>> /\ t[Len(t)] = " " THEN RStrip(SubSeq(t, 1, Len(t) - 1)) ELSE t

\* the digits of an int literal: blanks around it and one sign dropped
Unsigned(t) ==
    LET u == RStrip(LStrip(t))
    IN IF u # <<>> /\ u[1] \in {"+", "-"} THEN Tail(u) ELSE u

\* int(t) returns: t is an optional sign and decimal digits, blanks around
\* them allowed; on any other text int raises ValueError
IntParses(t) ==
    /\ Unsigned(t) # <<>>
    /\ \A i \in 1..Len(Unsigned(t)) : Unsigned(t)[i] \in Digits

RECURSIVE DigitsValue(_)
DigitsValue(d) ==
    IF d = <<>> THEN 0
    ELSE 10 * DigitsValue(SubSeq(d, 1, Len(d) - 1)) + DigitVal(d[Len(d)])

\* the value of int(t) where it returns
int(t) ==
    LET u == RStrip(LStrip(t))
    IN IF u[1] = "-" THEN 0 - DigitsValue(Unsigned(t)) ELSE DigitsValue(Unsigned(t))

\* the fields the loop passes to int, in the order it does
NumericFields == <<"gp", "gs", "g", "a", "pts", "sh", "sog", "gw", "min">>

\* a raw row: a dict from lower-cased header to cell text, and "_season"
MkRow(season, gp, other) ==
    LET base == [k \in {NumericFields[i] : i \in 2..Len(NumericFields)} |-> <<"1">>]
        cells == CASE other = "plain" -> base
                   [] other = "no g" ->
                        [k \in (DOMAIN base) \ {"g"} |-> base[k]]
                   [] other = "empty min" ->
                        [base EXCEPT !["min"] = <<>>]
        withGp == IF gp = Absent THEN cells ELSE ("gp" :> gp) @@ cells
    IN IF season = Absent THEN withGp ELSE ("_season" :> season) @@ withGp

\* the rows the model aggregates: a season label or none, a gp cell that is
\* absent, "10", "14", " 7", or "-", and the other cells "1" but for a
\* missing g or an empty min
RowInputs ==
    {MkRow(s, gp, o) :
        s \in {"2023", "2024", Absent},
        gp \in {Absent, <<"1", "0">>, <<"1", "4">>, <<" ", "7">>, <<"-">>},
        o \in {"plain", "no g", "empty min"}}

\* row.get(key, default)
get(row, key, default) == IF key \in DOMAIN row THEN row[key] ELSE default

\* int(row.get(field, "0"))
Field(row, f) == int(get(row, f, <<"0">>))

\* no int(...) of the loop body raises on the row
RowParses(row) ==
    \A i \in 1..Len(NumericFields) : IntParses(get(row, NumericFields[i], <<"0">>))

\* the row replaces the entry of its season whatever their gp
KeepsRowAlways(season, gp, data) == TRUE

\* "if season not in season_data or gp > season_data[season]['gp']"
KeepsRow(season, gp, data) ==
    IF season \notin DOMAIN data THEN TRUE ELSE gp > data[season].gp

\* the entry stored for a row (and, as history, the index of the row)
Entry(row, index) ==
    [gp |-> Field(row, "gp"), gs |-> Field(row, "gs"), g |-> Field(row, "g"),
     a |-> Field(row, "a"), pts |-> Field(row, "pts"), sh |-> Field(row, "sh"),
     sog |-> Field(row, "sog"), gw |-> Field(row, "gw"),
     min |-> Field(row, "min"),
     sh_pct |-> get(row, "sh%", "0.000"),
     sog_pct |-> get(row, "sog%", "0.000"),
     pk_att |-> get(row, "pg-pa", "0-0"),
     index |-> index]

\* one pass of "for row in stats_rows": the fields are parsed, a ValueError
\* of int ends the script, else the row is kept if it is the first of its
\* season or has more gp than the entry kept
AggRow ==
    /\ apc = "loop"
    /\ ai < Len(stats_rows)
    /\ LET row == stats_rows[ai + 1]
           season == get(row, "_season", "Unknown")
       IN IF ~RowParses(row)
          THEN /\ apc' = "aborted"
               /\ UNCHANGED <<ai, season_data>>
          ELSE /\ apc' = apc
               /\ ai' = ai + 1
               /\ season_data' =
                    IF KeepsRow(season, Field(row, "gp"), season_data)
                    THEN (season :> Entry(row, ai + 1)) @@ season_data
                    ELSE season_data
    /\ UNCHANGED <<stats_rows, totals>>
    /\ UNCHANGED <<qvars, pvars>>

RECURSIVE SumOver(_, _, _)
\* sum(data[f] for data in season_data.values())
SumOver(data, labels, f) ==
    IF labels = {} THEN 0
    ELSE LET s == CHOOSE x \in labels : TRUE
         IN data[s][f] + SumOver(data, labels \ {s}, f)

\* the career totals, once every row is processed
AggTotals ==
    /\ apc = "loop"
    /\ ai = Len(stats_rows)
    /\ totals' = [f \in {NumericFields[i] : i \in 1..Len(NumericFields)} |->
                    SumOver(season_data, DOMAIN season_data, f)]
    /\ apc' = "done"
    /\ UNCHANGED <<stats_rows, ai, season_data>>
    /\ UNCHANGED <<qvars, pvars>>

\* no query is running
QueryIdle ==
    /\ query = [name |-> "Abdirasak Bulale", school |-> "St. Olaf College"]
    /\ hasKey = FALSE
    /\ pc = "done"
    /\ fstatus = "idle"
    /\ outcomes = <<>>
    /\ todo = {}
    /\ candidates = <<>>
    /\ log = <<>>
    /\ located = None
    /\ locatedBy = "none"
    /\ url = None
    /\ si = 0
    /\ all_stats_rows = <<>>
    /\ result = NoPage
    /\ raisedAt = "none"
    /\ webRequests = 0
    /\ anyOk = FALSE

\* the CLI has a found record with statistics rows
AggInit ==
    /\ stats_rows \in SeqUpTo(RowInputs, MaxAggRows) \ {<<>>}
    /\ ai = 0
    /\ season_data = <<>>
    /\ apc = "loop"
    /\ totals = <<>>

InitAgg == QueryIdle /\ AggInit /\ ParseIdle

NextAgg ==
    \/ AggRow
    \/ AggTotals

SpecAgg == InitAgg /\ [][NextAgg]_vars

----------------------------------------------------------------------------
(* Properties of the aggregation *)

Label(row) == get(row, "_season", "Unknown")

\* the rows processed so far that carry the label
RowsOf(label) == {i \in 1..ai : Label(stats_rows[i]) = label}

\* C7: after any rows are processed, season_data holds exactly one entry
\* per season label met, and it is the entry of the first row that has the
\* largest gp among the rows of that label.
C7_OneEntryPerSeasonLargestGp ==
    apc \in {"loop", "done"} =>
        /\ DOMAIN season_data = {Label(stats_rows[i]) : i \in 1..ai}
        /\ \A s \in DOMAIN season_data :
            LET e == season_data[s]
            IN /\ e.index \in RowsOf(s)
               /\ e = Entry(stats_rows[e.index], e.index)
               /\ \A i \in RowsOf(s) : Field(stats_rows[i], "gp") <= e.gp
               /\ \A i \in RowsOf(s) :
                    Field(stats_rows[i], "gp") = e.gp => e.index <= i

\* rows with gp 10 and then 14 of season 2024 were aggregated
C7_Witness ==
    /\ apc = "done"
    /\ Len(stats_rows) = 2
    /\ Label(stats_rows[1]) = "2024"
    /\ Label(stats_rows[2]) = "2024"
    /\ "gp" \in DOMAIN stats_rows[1]
    /\ "gp" \in DOMAIN stats_rows[2]
    /\ stats_rows[1]["gp"] = <<"1", "0">>
    /\ stats_rows[2]["gp"] = <<"1", "4">>
    /\ season_data["2024"].gp = 14
    /\ season_data["2024"].index = 2

\* C8 as claimed: no row makes the aggregation end before the totals: an
\* absent or unparseable numeric field counts as 0.  int raises on an
\* unparseable text, so this fails.
C8_AggregationNeverAborts == apc # "aborted"

----------------------------------------------------------------------------
(* best_match and the name of the record *)

MaxJsonLd == 1          \* Person declarations of a document
MaxProfileTables == 2   \* tables of a profile page

\* fuzz.token_set_ratio(input_name, text) for the texts of the model, with
\* input_name "Abdirasak Bulale": the name itself, two texts placed at the
\* threshold of best_match and just under it, and the empty text
token_set_ratio(text) ==
    CASE text = "Abdirasak Bulale" -> 100
      [] text = "Abdirasak B." -> 70
      [] text = "St. Olaf College Athletics" -> 69
      [] text = "Abdirasak " -> 100
      [] text = " Bulale" -> 100
      [] text = " " -> 0
      [] text = " - Men's Soccer" -> 0
      [] text = "" -> 0

Texts == {"", "Abdirasak Bulale", "Abdirasak B.", "St. Olaf College Athletics"}

\* best_match(target, options): the falsy options are dropped, the others
\* sorted by score, highest first (a stable sort), and the first returned
\* if it scores 70 or more
best_match(options) ==
    LET scored == SelectSeq(options, LAMBDA opt : opt \notin {"", None, Absent})
        first == CHOOSE i \in 1..Len(scored) :
                    /\ \A j \in 1..Len(scored) :
                          token_set_ratio(scored[j]) <= token_set_ratio(scored[i])
                    /\ \A j \in 1..(i - 1) :
                          token_set_ratio(scored[j]) < token_set_ratio(scored[i])
    IN IF scored = <<>> THEN None
       ELSE IF token_set_ratio(scored[first]) >= 70 THEN scored[first]
       ELSE None

\* f"{first_name} {last_name}" for the first and last names of the model
JoinName(first_name, last_name) ==
    CASE first_name = "Abdirasak" /\ last_name = "Bulale" -> "Abdirasak Bulale"
      [] first_name = "Abdirasak" /\ last_name = "" -> "Abdirasak "
      [] first_name = "" /\ last_name = "Bulale" -> " Bulale"
      [] first_name = "" /\ last_name = "" -> " "

\* the element .sidearm-roster-player-name: the normalized texts of its
\* first-name and last-name spans (Absent: no such span) and of the whole
NameSpans ==
    [first : {Absent, "", "Abdirasak"}, last : {Absent, "", "Bulale"},
     text : {"", "Abdirasak Bulale"}]

\* the document has no such element
NoSpan == [first |-> Absent, last |-> Absent, text |-> Absent]

\* a title meta tag: Absent, or its content and the normalized part of the
\* content before " - " (a content such as " - Men's Soccer" has an empty one)
NoMeta == [content |-> Absent, head |-> Absent]

MetaTitles ==
    {NoMeta, [content |-> "", head |-> ""],
     [content |-> " - Men's Soccer", head |-> ""]}
        \cup {[content |-> t, head |-> t] : t \in Texts \ {""}}

Truthy(x) == x \notin {"", None, Absent}

\* title_texts, in the order the parser collects them
title_texts(d) ==
    (IF d.h1 # Absent THEN <<d.h1>> ELSE <<>>)
        \o (IF Truthy(d.og_title.content)
            THEN <<d.og_title.head>> ELSE <<>>)
        \o (IF Truthy(d.twitter_title.content)
            THEN <<d.twitter_title.head>> ELSE <<>>)
        \o d.jsonld_names
        \o (IF Truthy(d.crumb) THEN <<d.crumb>> ELSE <<>>)

\* name_final of parse_sidearm_profile
name_final(d) ==
    IF d.player_name_span # NoSpan
    THEN LET span == d.player_name_span
         IN IF span.first # Absent /\ span.last # Absent
            THEN LET player_name == JoinName(span.first, span.last)
                 IN IF player_name # "" THEN player_name ELSE span.text
            ELSE span.text
    ELSE LET best == best_match(title_texts(d))
         IN IF Truthy(best) THEN best
            ELSE IF title_texts(d) # <<>> THEN title_texts(d)[1]
            ELSE None

\* inferred_name of find_and_scrape, for a page of no recognized template:
\* the best match among the text of h1 (else of title) and og:title's content
inferred_name(d) ==
    LET heading == IF d.h1 # Absent THEN d.h1
                   ELSE IF d.title # Absent THEN d.title
                   ELSE None
        og == IF d.og_title # NoMeta THEN d.og_title.content ELSE None
    IN best_match(<<heading, og>>)

----------------------------------------------------------------------------
(* The statistics tables of parse_sidearm_profile *)

common_cols == {"gp", "g", "a", "pts", "min", "gs", "sog", "gw", "sh", "yc", "rc"}

\* the header rows of the tables of the model, as norm leaves them
HeaderLists ==
    {<<"name", "position", "year">>,
     <<"season", "gp", "g", "a", "pts">>,
     <<"Name", "Position", "Class">>,
     <<"Season", "GP", "G", "A">>,
     <<"Player", "GP.", "Hometown">>,
     <<"gp", "g">>}

\* h.lower().strip(".") on the headers of HeaderLists
HeaderKey(h) ==
    CASE h = "Name" -> "name"
      [] h = "Position" -> "position"
      [] h = "Class" -> "class"
      [] h = "Season" -> "season"
      [] h = "Player" -> "player"
      [] h = "Hometown" -> "hometown"
      [] h = "GP" -> "gp"
      [] h = "GP." -> "gp"
      [] h = "G" -> "g"
      [] h = "A" -> "a"
      [] h \in {"name", "position", "year", "season", "gp", "g", "a", "pts"} -> h

header_keys(headers) == {HeaderKey(headers[i]) : i \in 1..Len(headers)}

\* the table passes although only its stat columns count
AcceptedByStatColumnsOnly(headers) ==
    /\ Len(headers) >= 3
    /\ Cardinality(header_keys(headers) \cap common_cols) >= 2

\* the table is not skipped: it has 3 headers or more and either 2 of the
\* common stat columns or a "season" or "year" header
StatsTableAccepted(headers) ==
    /\ headers # <<>>
    /\ Len(headers) >= 3
    /\ ~(/\ Cardinality(header_keys(headers) \cap common_cols) < 2
         /\ ~(\E h \in {"season", "year"} : h \in header_keys(headers)))

\* the cells of a body row of a kind under the headers: an "empty" row has
\* empty cells only, a "season" row a season cell only, a "data" row has
\* every cell filled
Cells(kind, headers) ==
    [i \in 1..Len(headers) |->
        IF HeaderKey(headers[i]) \in {"season", "year"}
        THEN IF kind = "empty" THEN "" ELSE "2024"
        ELSE IF kind = "data" THEN "1" ELSE ""]

ProfileRowLists == {<<>>, <<"empty">>, <<"season">>, <<"data">>}

ProfileTables == [headers : HeaderLists, rows : ProfileRowLists]

\* dict(zip(headers[:len(cells)], cells)), "_season" added, and as history
\* the index of the table
RowDict(headers, cells, index) ==
    LET row == [h \in {headers[i] : i \in 1..Len(cells)} |->
                    cells[CHOOSE i \in 1..Len(cells) : headers[i] = h]]
        season == IF "Season" \in DOMAIN row /\ Truthy(row["Season"])
                  THEN row["Season"]
                  ELSE IF "Year" \in DOMAIN row /\ Truthy(row["Year"])
                  THEN row["Year"]
                  ELSE None
    IN [row |-> row, season |-> season, table |-> index]

\* "if any(v for v in row.values() if v and v != row['_season'])"
RowKept(r) ==
    \E h \in DOMAIN r.row : Truthy(r.row[h]) /\ r.row[h] # r.season

\* the rows of one accepted table that are kept
TableRows(table, index) ==
    LET all == [k \in 1..Len(table.rows) |->
                    RowDict(table.headers, Cells(table.rows[k], table.headers), index)]
    IN SelectSeq(all, RowKept)

RECURSIVE ScanEveryTable(_, _, _)
\* the loop over the tables without its break: every accepted table adds
\* its rows
ScanEveryTable(tables, index, stats) ==
    IF index > Len(tables) THEN stats
    ELSE IF ~StatsTableAccepted(tables[index].headers)
    THEN ScanEveryTable(tables, index + 1, stats)
    ELSE ScanEveryTable(tables, index + 1,
                        stats \o TableRows(tables[index], index))

RECURSIVE ScanProfileTables(_, _, _)
\* the loop over the tables from the table of the index on: a skipped table
\* goes by, an accepted one adds its rows, and the loop breaks once stats
\* is not empty
ScanProfileTables(tables, index, stats) ==
    IF index > Len(tables) THEN stats
    ELSE IF ~StatsTableAccepted(tables[index].headers)
    THEN ScanProfileTables(tables, index + 1, stats)
    ELSE LET stats1 == stats \o TableRows(tables[index], index)
         IN IF stats1 # <<>> THEN stats1
            ELSE ScanProfileTables(tables, index + 1, stats1)

----------------------------------------------------------------------------
(* The specification of the parse of one document *)

NoName ==
    [player_name_span |-> NoSpan, h1 |-> Absent, title |-> Absent,
     og_title |-> NoMeta, twitter_title |-> NoMeta, jsonld_names |-> <<>>,
     crumb |-> Absent]

\* sidearm documents that differ in their name sources
NameDocs ==
    [provider : {"sidearm"},
     player_name_span : {NoSpan} \cup NameSpans,
     h1 : {Absent} \cup Texts,
     title : {Absent},
     og_title : MetaTitles,
     twitter_title : {NoMeta, [content |-> " - Men's Soccer", head |-> ""],
                      [content |-> "Abdirasak B.", head |-> "Abdirasak B."]},
     jsonld_names : SeqUpTo({"", "Abdirasak Bulale"}, MaxJsonLd),
     crumb : {Absent, "", "St. Olaf College Athletics"},
     tables : {<<>>}]

\* sidearm documents that differ in their tables
TableDocs ==
    {[NoName EXCEPT !.h1 = "Abdirasak Bulale"] @@
        [provider |-> "sidearm", tables |-> t] :
            t \in SeqUpTo(ProfileTables, MaxProfileTables)}

\* documents of no recognized template
UnknownDocs ==
    [provider : {"unknown", "presto"},
     player_name_span : {NoSpan},
     h1 : {Absent} \cup Texts,
     title : {Absent, "St. Olaf College Athletics"},
     og_title : MetaTitles,
     twitter_title : {NoMeta},
     jsonld_names : {<<>>},
     crumb : {Absent},
     tables : {<<>>}]

\* parse_sidearm_profile on a sidearm document
ParseSidearm ==
    /\ ppc = "ready"
    /\ doc.provider = "sidearm"
    /\ parsed' = [url |-> "page_url", provider |-> "sidearm",
                  name |-> name_final(doc),
                  stats_rows |-> ScanProfileTables(doc.tables, 1, <<>>)]
    /\ ppc' = "parsed"
    /\ UNCHANGED doc
    /\ UNCHANGED <<qvars, avars>>

\* the else branch of find_and_scrape on any other document
InferName ==
    /\ ppc = "ready"
    /\ doc.provider # "sidearm"
    /\ parsed' = [url |-> "page_url", provider |-> doc.provider,
                  name |-> inferred_name(doc), stats_rows |-> <<>>]
    /\ ppc' = "parsed"
    /\ UNCHANGED doc
    /\ UNCHANGED <<qvars, avars>>

ParseInit ==
    /\ doc \in NameDocs \cup TableDocs \cup UnknownDocs
    /\ ppc = "ready"
    /\ parsed = NoPage

InitParse == QueryIdle /\ AggIdle /\ ParseInit

NextParse ==
    \/ ParseSidearm
    \/ InferName

SpecParse == InitParse /\ [][NextParse]_vars

----------------------------------------------------------------------------
(* Properties of the parse *)

\* the rows of the record that come from the table of the index
RowsFrom(index) ==
    {k \in 1..Len(parsed.stats_rows) : parsed.stats_rows[k].table = index}

\* the lower-cased headers of the table of the index
KeysOf(index) == header_keys(doc.tables[index].headers)

StatColumns == {"gp", "g", "a", "pts", "min", "gs", "sog", "gw", "sh", "yc", "rc"}

FirstTableHas(headerSet, kind) ==
    /\ doc.tables # <<>>
    /\ KeysOf(1) = headerSet
    /\ doc.tables[1].rows = <<kind>>

\* C9 as claimed: a table with the headers name, position, year is
\* rejected (no row of the record comes from it), and a first table with
\* the headers season, gp, g, a, pts is accepted.  The heuristic takes
\* "year" for a season column, so this fails.
C9_RejectsNamePositionYear ==
    (ppc = "parsed" /\ doc.provider = "sidearm") =>
        /\ \A i \in 1..Len(doc.tables) :
                KeysOf(i) = {"name", "position", "year"} => RowsFrom(i) = {}
        /\ FirstTableHas({"season", "gp", "g", "a", "pts"}, "data") =>
                RowsFrom(1) # {}

\* C9, amended: a table with fewer than 2 of the common stat columns and
\* neither a "season" nor a "year" header is rejected: no row of the record
\* comes from it.  A first table with the headers season, gp, g, a, pts
\* is accepted, and so is one with the headers name, position, year.
C9_AcceptanceHeuristic ==
    (ppc = "parsed" /\ doc.provider = "sidearm") =>
        /\ \A i \in 1..Len(doc.tables) :
                (/\ Cardinality(KeysOf(i) \cap StatColumns) < 2
                 /\ "season" \notin KeysOf(i)
                 /\ "year" \notin KeysOf(i)) => RowsFrom(i) = {}
        /\ FirstTableHas({"season", "gp", "g", "a", "pts"}, "data") =>
                RowsFrom(1) # {}
        /\ FirstTableHas({"name", "position", "year"}, "data") =>
                RowsFrom(1) # {}

\* a table of the headers Name, Position, Class with a filled row was
\* passed over and the rows come from the table after it
C9_Witness ==
    /\ ppc = "parsed"
    /\ Len(doc.tables) = 2
    /\ doc.tables[1] = [headers |-> <<"Name", "Position", "Class">>,
                        rows |-> <<"data">>]
    /\ doc.tables[2].headers = <<"season", "gp", "g", "a", "pts">>
    /\ RowsFrom(1) = {}
    /\ RowsFrom(2) # {}

\* a text of the document that a name can come from is not empty
SomeNameSource(d) ==
    \/ Truthy(d.player_name_span.first)
    \/ Truthy(d.player_name_span.last)
    \/ Truthy(d.player_name_span.text)
    \/ Truthy(d.h1)
    \/ Truthy(d.title)
    \/ Truthy(d.og_title.content)
    \/ Truthy(d.twitter_title.content)
    \/ \E i \in 1..Len(d.jsonld_names) : Truthy(d.jsonld_names[i])
    \/ Truthy(d.crumb)

\* the candidates of the document that are not empty, in collection order
NonEmptyCandidates(d) == SelectSeq(title_texts(d), Truthy)

\* C10 as claimed: the name of the record is neither empty nor none when a
\* name source of the document is not empty, and where the candidates are
\* collected and none reaches 70, the name is the first non-empty one.
\* The parser falls back on the first candidate, empty or not, ignores the
\* other sources once the player-name element exists, and the
\* unknown-template path has no fallback, so this fails.
C10_NameNeverEmpty ==
    ppc = "parsed" =>
        /\ SomeNameSource(doc) => Truthy(parsed.name)
        /\ (/\ doc.provider = "sidearm"
            /\ doc.player_name_span = NoSpan
            /\ NonEmptyCandidates(doc) # <<>>
            /\ \A i \in 1..Len(NonEmptyCandidates(doc)) :
                    token_set_ratio(NonEmptyCandidates(doc)[i]) < 70)
                => parsed.name = NonEmptyCandidates(doc)[1]

----------------------------------------------------------------------------
(* Properties of the roster scan, the table scan and the supplementer *)

\* the canonical current roster: the first pattern without a season suffix
CanonicalRoster == [pattern |-> "roster", yr |-> ""]

\* the roster URLs the scan has taken from the set so far
RosterTaken == RosterUrls \ todo

\* C11 as claimed: the roster scan fetches its URLs in one fixed priority
\* order with the canonical current roster first: whenever a roster URL is
\* being fetched, the canonical current roster has been taken already.
\* The URLs are iterated out of a set, whose order is not fixed, so this
\* fails.
C11_RosterPriorityOrder ==
    pc = "roster_fetch" => CanonicalRoster \in RosterTaken

\* the highest score among the candidates
HighestScore(scored) ==
    CHOOSE s \in {scored[i].token_set_ratio : i \in 1..Len(scored)} :
        \A i \in 1..Len(scored) : scored[i].token_set_ratio <= s

\* the href of the first candidate, in document order, of the highest score
FirstOfHighest(scored) ==
    LET i == CHOOSE k \in 1..Len(scored) :
                /\ scored[k].token_set_ratio = HighestScore(scored)
                /\ \A j \in 1..(k - 1) :
                        scored[j].token_set_ratio < HighestScore(scored)
    IN scored[i].href

\* C12 as claimed: the roster scan returns the link of the highest score of
\* the first page with a candidate, and of several links of that score the
\* one met first in document order.  The (score, url) tuples are sorted in
\* reverse, so of equal scores the greatest URL is returned and this fails.
C12_TieByEncounterOrder ==
    (pc = "located" /\ locatedBy = "roster") =>
        located = FirstOfHighest(candidates)

\* the tables of the document that pass the acceptance heuristic
Qualifying ==
    {i \in 1..Len(doc.tables) : StatsTableAccepted(doc.tables[i].headers)}

\* the qualifying tables that have a body row the parser keeps
Contributing ==
    {i \in Qualifying : TableRows(doc.tables[i], i) # <<>>}

Lowest(S) == CHOOSE i \in S : \A j \in S : i <= j

\* C13 as claimed: the rows of the record come from the first table that
\* passes the acceptance heuristic and from no other, also when that table
\* contributes no rows.  The loop breaks only once it has rows, so a
\* qualifying table without kept rows is passed over and this fails.
C13_FirstQualifyingTableOnly ==
    (ppc = "parsed" /\ doc.provider = "sidearm") =>
        \A k \in 1..Len(parsed.stats_rows) :
            parsed.stats_rows[k].table = Lowest(Qualifying)

\* C13, amended: the rows of the record are the kept rows of the first
\* qualifying table that has a kept row, and of no other table: every
\* later table is ignored even if it qualifies, and a qualifying table
\* without kept rows is passed over.  With no such table there are no rows.
C13_FirstContributingTableOnly ==
    (ppc = "parsed" /\ doc.provider = "sidearm") =>
        IF Contributing = {}
        THEN parsed.stats_rows = <<>>
        ELSE /\ parsed.stats_rows # <<>>
             /\ \A k \in 1..Len(parsed.stats_rows) :
                    parsed.stats_rows[k].table = Lowest(Contributing)
             /\ Len(parsed.stats_rows)
                    = Len(TableRows(doc.tables[Lowest(Contributing)],
                                    Lowest(Contributing)))

\* two qualifying tables with a filled row each were parsed, and the rows
\* of the record are those of the first
C13_Witness ==
    /\ ppc = "parsed"
    /\ Len(doc.tables) >= 2
    /\ {1, 2} \subseteq Contributing
    /\ RowsFrom(1) # {}
    /\ RowsFrom(2) = {}

\* the rows of the supplementer's list tagged with the season
TaggedWith(season) ==
    {k \in 1..Len(all_stats_rows) : all_stats_rows[k].season = season}

\* C14 as claimed: the supplementer retains at most one row per fetched
\* season page: its list never holds two rows tagged with the same season.
\* The break after a matching row leaves the loop over the rows of one
\* table only, so every qualifying table of a page adds a row and this
\* fails.
C14_OneRowPerSeasonPage ==
    \A i \in 1..Len(seasons) : Cardinality(TaggedWith(seasons[i])) <= 1
====
